---------------------------- MODULE Spec2Model ----------------------------
(***************************************************************************)
(* State-machine model of the IRA grid-stress analysis scripts:            *)
(*   pull_resstock_data.py   (metadata ingest, column selection)           *)
(*   analyze_single_home.py  (path resolution, archetype simulation)       *)
(*   app.py                  (fleet aggregation dashboard, one rerun per   *)
(*                            widget interaction)                          *)
(* Text cells are sequences of one-character strings so that substring     *)
(* filters are computed; a missing (NaN) text cell is the empty sequence,  *)
(* which is what read_csv makes of an empty field.  Numeric cells are      *)
(* exact rationals with a NaN marker; the one place where binary64         *)
(* rounding decides an integer result (num_converts) is modelled bit by    *)
(* bit.                                                                    *)
(***************************************************************************)
EXTENDS Integers, Sequences, FiniteSets, Bags, TLC

VARIABLES
    pc,            \* position of the running script
    error,         \* uncaught exception that ended the script, or None
    columns,       \* pull: df.columns after read / reset_index (a set)
    index_name,    \* pull: name of the frame's index after read
    final_cols,    \* pull: the list final_cols
    output_file,   \* pull: sc_resstock_metadata.csv (absent or its columns)
    meta_cols,     \* analyze: columns of df_meta
    meta_rows,     \* analyze: rows of df_meta, in file order
    heat_col,      \* analyze/app: resolved heating column name
    sqft_col,      \* analyze: resolved floor-area column name
    targets,       \* analyze: rows passing the target filter
    fs_a,          \* analyze: fs.exists(path_a)
    fs_b,          \* analyze: fs.exists(path_b)
    ts_path,       \* analyze: result of get_correct_timeseries_path
    file_list,     \* analyze: result of fs.glob
    df_ts,         \* analyze: the interval frame (sequence of rows)
    artifact,      \* analyze: archetype_profile.csv (absent or rows)
    meta_csv,      \* app: sc_resstock_metadata.csv as load_data finds it
    arch_csv,      \* app: archetype_profile.csv as load_data finds it
    cache,         \* app: st.cache_data entry of load_data, or None
    df_meta,       \* app: first value returned by load_data
    df_archetype,  \* app: second value returned by load_data
    selected_county,   \* app: value of the county selectbox
    adoption_rate,     \* app: value of the adoption slider
    county_homes, gas_homes, total_gas_homes, num_converts,
    baseline_curve, added_curve, new_total_curve,
    old_peak, new_peak, peak_growth, pct_increase,
    high_risk,     \* app: frame behind the intervention table
    table_rows,    \* app: number of rows st.dataframe is given
    messages,      \* app: status elements emitted by the last run
    page           \* app: "none", "dashboard", "waiting" or "exception"

pullVars == <<columns, index_name, final_cols, output_file>>
analyzeVars == <<meta_cols, meta_rows, heat_col, sqft_col, targets, fs_a, fs_b,
                 ts_path, file_list, df_ts, artifact>>
inputVars == <<selected_county, adoption_rate>>
loadVars == <<meta_csv, arch_csv, cache, df_meta, df_archetype>>
calcVars == <<county_homes, gas_homes, total_gas_homes, num_converts,
              baseline_curve, added_curve, new_total_curve,
              old_peak, new_peak, peak_growth, pct_increase,
              high_risk, table_rows, messages, page>>
appVars == <<inputVars, loadVars, calcVars>>
vars == <<pc, error, pullVars, analyzeVars, appVars>>

None == "None"
Absent == "absent"
Unset == "unset"

--------------------------------------------------------------------------
(* Text helpers                                                            *)

Lower(c) ==
    CASE c = "G" -> "g" [] c = "P" -> "p" [] c = "N" -> "n"
      [] c = "E" -> "e" [] c = "F" -> "f" [] c = "O" -> "o"
      [] OTHER -> c

LowerText(t) == [i \in 1..Len(t) |-> Lower(t[i])]

\* Series.str.contains(pat, case=True, na=False) for a literal pattern
Contains(t, pat) ==
    \E i \in 1..(Len(t) - Len(pat) + 1) : SubSeq(t, i, i + Len(pat) - 1) = pat

\* Series.str.contains(pat, case=False, na=False) for a literal pattern
ContainsNoCase(t, pat) == Contains(LowerText(t), LowerText(pat))

Gas == <<"G", "a", "s">>
Propane == <<"P", "r", "o", "p", "a", "n", "e">>
T100 == <<"1", "0", "0">>
T200 == <<"2", "0", "0">>

NaturalGas == <<"N", "a", "t", "u", "r", "a", "l", " ", "G", "a", "s">>
LowerGas == <<"g", "a", "s">>
Electricity == <<"E", "l", "e", "c", "t", "r", "i", "c", "i", "t", "y">>
NaNText == << >>

--------------------------------------------------------------------------
(* pull_resstock_data.py                                                   *)

cols_to_keep == <<"bldg_id", "in.city", "in.county", "in.sqft", "in.vintage",
                  "in.heating_fuel", "in.hvac_cooling_type", "in.income",
                  "in.usage_level">>

\* Column names a raw metadata table may carry in the model
RawColumnNames == {"bldg_id", "index", "in.sqft", "in.geometry_floor_area",
                   "in.heating_fuel", "in.hvac_heating_type", "in.income"}

IndexNames == {None, "bldg_id"}

\* df.reset_index(inplace=True): a named index becomes a column of that
\* name, an unnamed one becomes the column 'index'
ResetIndex(cols, idx) == cols \cup {IF idx = None THEN "index" ELSE idx}

\* df.rename(columns={'index': 'bldg_id'}) under its guard
RenameIndex(cols) ==
    IF "index" \in cols /\ "bldg_id" \notin cols
    THEN (cols \ {"index"}) \cup {"bldg_id"}
    ELSE cols

\* One iteration of the "Smart Filter" loop: what is appended for c
SmartFilterStep(c, cols) ==
    IF c \in cols THEN <<c>>
    ELSE IF c = "in.sqft" /\ "in.geometry_floor_area" \in cols
         THEN <<"in.geometry_floor_area">>
    ELSE IF c = "in.heating_fuel" /\ "in.hvac_heating_type" \in cols
         THEN <<"in.hvac_heating_type">>
    ELSE << >>

RECURSIVE SmartFilter(_, _)
SmartFilter(i, cols) ==
    IF i > Len(cols_to_keep) THEN << >>
    ELSE SmartFilterStep(cols_to_keep[i], cols) \o SmartFilter(i + 1, cols)

Range(s) == {s[i] : i \in 1..Len(s)}

PullInit ==
    /\ pc = "pull_start"
    /\ error = None
    /\ columns = {}
    /\ index_name = None
    /\ final_cols = << >>
    /\ output_file \in {Absent, "stale"}

\* lines 20-61: delete the old file, read the dataset, recover bldg_id
PullRead ==
    /\ pc = "pull_start"
    /\ \E ok \in BOOLEAN, raw \in SUBSET RawColumnNames, idx \in IndexNames :
          /\ idx \notin raw
          /\ IF ~ok
             THEN /\ pc' = "pull_exit1"
                  /\ UNCHANGED <<columns, index_name>>
             ELSE LET c1 == RenameIndex(ResetIndex(raw, idx))
                  IN  /\ columns' = c1
                      /\ index_name' = idx
                      /\ pc' = IF "bldg_id" \notin c1 THEN "pull_exit1"
                               ELSE "pull_select"
    /\ output_file' = Absent
    /\ UNCHANGED <<error, final_cols, analyzeVars, appVars>>

\* lines 63-87: select columns and save
PullSelectSave ==
    /\ pc = "pull_select"
    /\ final_cols' = SmartFilter(1, columns)
    /\ output_file' = SmartFilter(1, columns)
    /\ pc' = "pull_done"
    /\ UNCHANGED <<error, columns, index_name, analyzeVars, appVars>>

--------------------------------------------------------------------------
(* Numeric cells: exact rationals n/d (d > 0, lowest terms) or NaN         *)

RECURSIVE Gcd(_, _)
Gcd(a, b) == IF b = 0 THEN a ELSE Gcd(b, a % b)

Abs(x) == IF x < 0 THEN -x ELSE x

NaN == [nan |-> TRUE, n |-> 0, d |-> 1]

Rat(n, d) ==
    LET s == IF d < 0 THEN -1 ELSE 1
        g == Gcd(Abs(n), Abs(d))
    IN  [nan |-> FALSE, n |-> (s * n) \div g, d |-> (s * d) \div g]

Num(k) == Rat(k, 1)

\* float arithmetic: NaN is absorbing
RAdd(x, y) == IF x.nan \/ y.nan THEN NaN ELSE Rat(x.n * y.d + y.n * x.d, x.d * y.d)
RSub(x, y) == IF x.nan \/ y.nan THEN NaN ELSE Rat(x.n * y.d - y.n * x.d, x.d * y.d)
RMul(x, y) == IF x.nan \/ y.nan THEN NaN ELSE Rat(x.n * y.n, x.d * y.d)
\* y is a non-zero number at every use
RDiv(x, y) == IF x.nan \/ y.nan THEN NaN ELSE Rat(x.n * y.d, x.d * y.n)

\* comparisons with NaN are False
RLt(x, y) == ~x.nan /\ ~y.nan /\ x.n * y.d < y.n * x.d
RLe(x, y) == ~x.nan /\ ~y.nan /\ x.n * y.d <= y.n * x.d
RGt(x, y) == RLt(y, x)

--------------------------------------------------------------------------
(* analyze_single_home.py                                                  *)

MaxHomes == 2
MaxRows == 2

SqftThreshold == 2500

HeatLabels == {NaturalGas, Propane, NaNText}
SqftValues == {Num(2500), Num(3000)}

MetaRow == [bldg_id : {7}, heat : HeatLabels, sqft : SqftValues]

SeqsUpTo(S, k) == UNION {[1..m -> S] : m \in 0..k}

MetaRowSets == SeqsUpTo(MetaRow, MaxHomes)

ElecValues == {Num(-1), Num(2)}
GasValues == {Num(-1), Num(0), Num(1), NaN}

\* a raw interval frame: timestamps strictly increasing (row i at tick i)
IntervalSeriesSet ==
    {[i \in 1..m |-> [timestamp |-> i, electricity |-> e[i], gas_heating |-> g[i]]] :
        <<m, e, g>> \in UNION {{m} \X [1..m -> ElecValues] \X [1..m -> GasValues] :
                                m \in 1..MaxRows}}

path_a == "by_state/state=SC/upgrade=0"
path_b == "by_state/upgrade=0/state=SC"

\* variant probing upgrade/state first
get_correct_timeseries_path_swapped(exists_a, exists_b) ==
    IF exists_b THEN path_b
    ELSE IF exists_a THEN path_a
    ELSE None

\* lines 12-29, given the two existence probes; the listing in the else
\* branch is an effect of the caller's step below
get_correct_timeseries_path(exists_a, exists_b) ==
    IF exists_a THEN path_a
    ELSE IF exists_b THEN path_b
    ELSE None

\* lines 47-48
ResolveHeatCol(cols) ==
    IF "in.heating_fuel" \in cols THEN "in.heating_fuel" ELSE "in.hvac_heating_type"

ResolveSqftCol(cols) ==
    IF "in.sqft" \in cols THEN "in.sqft" ELSE "in.geometry_floor_area"

\* lines 50-53
IsTarget(r) == ContainsNoCase(r.heat, Gas) /\ RGt(r.sqft, Num(SqftThreshold))

\* boolean-mask row selection, file order kept
RECURSIVE FilterFrom(_, _, _, _)
FilterFrom(s, i, keep, acc) ==
    IF i > Len(s) THEN acc
    ELSE FilterFrom(s, i + 1, keep, IF s[i] \in keep THEN Append(acc, s[i]) ELSE acc)

FilterRows(s, keep) == FilterFrom(s, 1, keep, << >>)

\* a non-empty text column whose cells are all missing is read as float64,
\* on which the .str accessor raises
AllMissing(rows, field) ==
    Len(rows) > 0 /\ \A i \in 1..Len(rows) : rows[i][field] = NaNText

COP == 3

\* variant adding the gas channel without the efficiency factor
SimulateRowNoCop(r) ==
    LET added == RDiv(r.gas_heating, Num(COP))
    IN  [timestamp |-> r.timestamp,
         electricity |-> r.electricity,
         gas_heating |-> r.gas_heating,
         hp_added_load |-> added,
         total_load_after |-> RAdd(r.electricity, r.gas_heating)]

\* lines 112-113 for one row
SimulateRow(r) ==
    LET added == RDiv(r.gas_heating, Num(COP))
    IN  [timestamp |-> r.timestamp,
         electricity |-> r.electricity,
         gas_heating |-> r.gas_heating,
         hp_added_load |-> added,
         total_load_after |-> RAdd(r.electricity, added)]

AnalyzeIdle ==
    /\ meta_cols = {} /\ meta_rows = << >> /\ heat_col = None
    /\ sqft_col = None /\ targets = << >> /\ fs_a = FALSE /\ fs_b = FALSE
    /\ ts_path = None /\ file_list = << >> /\ df_ts = << >>
    /\ artifact = Absent

\* lines 34-44; the pull process has ended, its locals are gone
LoadMetadata ==
    /\ pc \in {"pull_done", "pull_exit1"}
    /\ columns' = {} /\ index_name' = None /\ final_cols' = << >>
    /\ IF output_file = Absent
       THEN /\ pc' = "analyze_exit1"
            /\ UNCHANGED <<meta_cols, meta_rows>>
       ELSE /\ meta_cols' = Range(output_file)
            /\ meta_rows' \in MetaRowSets
            /\ pc' = "pick_target"
    /\ UNCHANGED <<appVars, error, output_file, heat_col, sqft_col, targets, fs_a, fs_b,
                   ts_path, file_list, df_ts, artifact>>

\* lines 46-64
PickTarget ==
    /\ pc = "pick_target"
    /\ heat_col' = ResolveHeatCol(meta_cols)
    /\ sqft_col' = ResolveSqftCol(meta_cols)
    /\ IF heat_col' \notin meta_cols
       THEN pc' = "crash" /\ error' = "KeyError" /\ targets' = targets
       ELSE IF AllMissing(meta_rows, "heat")
       THEN pc' = "crash" /\ error' = "AttributeError" /\ targets' = targets
       ELSE IF sqft_col' \notin meta_cols
       THEN pc' = "crash" /\ error' = "KeyError" /\ targets' = targets
       ELSE /\ targets' = FilterRows(meta_rows, {r \in Range(meta_rows) : IsTarget(r)})
            /\ pc' = IF targets' = << >> THEN "analyze_exit1" ELSE "resolve_path"
            /\ error' = error
    /\ UNCHANGED <<appVars, pullVars, meta_cols, meta_rows, fs_a, fs_b, ts_path,
                   file_list, df_ts, artifact>>

\* lines 66-76 with lines 12-29
ResolvePath ==
    /\ pc = "resolve_path"
    /\ \E root \in BOOLEAN, a \in BOOLEAN, b \in BOOLEAN :
          /\ (a \/ b) => root
          /\ fs_a' = a
          /\ fs_b' = b
          /\ IF ~a /\ ~b /\ ~root
             THEN \* fs.ls(root_path) raises inside the else branch
                  pc' = "crash" /\ error' = "FileNotFoundError" /\ ts_path' = ts_path
             ELSE /\ ts_path' = get_correct_timeseries_path(a, b)
                  /\ pc' = IF ts_path' = None THEN "analyze_exit1" ELSE "find_file"
                  /\ error' = error
    /\ UNCHANGED <<appVars, pullVars, meta_cols, meta_rows, heat_col, sqft_col, targets,
                   file_list, df_ts, artifact>>

\* lines 78-91
FindFile ==
    /\ pc = "find_file"
    /\ \E found \in BOOLEAN :
          /\ file_list' = IF found THEN <<"bldg-0.parquet">> ELSE << >>
          /\ pc' = IF found THEN "download" ELSE "analyze_exit1"
    /\ UNCHANGED <<appVars, error, pullVars, meta_cols, meta_rows, heat_col, sqft_col,
                   targets, fs_a, fs_b, ts_path, df_ts, artifact>>

\* lines 93-105
Download ==
    /\ pc = "download"
    /\ df_ts' \in IntervalSeriesSet
    /\ pc' = "simulate"
    /\ UNCHANGED <<appVars, error, pullVars, meta_cols, meta_rows, heat_col, sqft_col,
                   targets, fs_a, fs_b, ts_path, file_list, artifact>>

\* lines 107-113
Simulate ==
    /\ pc = "simulate"
    /\ df_ts' = [i \in 1..Len(df_ts) |-> SimulateRow(df_ts[i])]
    /\ pc' = "plot_save"
    /\ UNCHANGED <<appVars, error, pullVars, meta_cols, meta_rows, heat_col, sqft_col,
                   targets, fs_a, fs_b, ts_path, file_list, artifact>>

\* lines 115-147
PlotSave ==
    /\ pc = "plot_save"
    /\ artifact' = df_ts
    /\ pc' = "analyze_done"
    /\ UNCHANGED <<appVars, error, pullVars, meta_cols, meta_rows, heat_col, sqft_col,
                   targets, fs_a, fs_b, ts_path, file_list, df_ts>>

--------------------------------------------------------------------------
(* binary64 arithmetic for  int(total_gas_homes * (adoption_rate / 100))   *)
(* A positive float is (hi*2^40 + mid*2^20 + lo) * 2^exp with a 53-bit     *)
(* significand, 2^12 <= hi < 2^13; zero is the record with zero = TRUE.    *)

RECURSIVE Pow2(_)
Pow2(k) == IF k = 0 THEN 1 ELSE 2 * Pow2(k - 1)

Limb == Pow2(20)   \* the limb base of the significand
HiMin == Pow2(12)  \* least top limb of a normalised significand
HiLim == Pow2(13)  \* bound of the top limb

FZero == [zero |-> TRUE, hi |-> 0, mid |-> 0, lo |-> 0, exp |-> 0]

\* add one unit in the last place, renormalising on carry out
FIncrement(f) ==
    IF f.lo + 1 < Limb THEN [f EXCEPT !.lo = f.lo + 1]
    ELSE IF f.mid + 1 < Limb THEN [f EXCEPT !.lo = 0, !.mid = f.mid + 1]
    ELSE IF f.hi + 1 < HiLim THEN [f EXCEPT !.lo = 0, !.mid = 0, !.hi = f.hi + 1]
    ELSE [f EXCEPT !.lo = 0, !.mid = 0, !.hi = HiMin, !.exp = f.exp + 1]

\* smallest s >= 0 with p * 2^s >= q   (0 < p <= q)
RECURSIVE NormShift(_, _)
NormShift(p, q) == IF p >= q THEN 0 ELSE 1 + NormShift(2 * p, q)

\* p / q for ints 0 <= p <= q, q > 0: correctly rounded (nearest, ties to even)
FloatDiv(p, q) ==
    IF p = 0 THEN FZero
    ELSE LET s == NormShift(p, q)
             a0 == p * Pow2(s)
             hi == (a0 * HiMin) \div q
             r1 == (a0 * HiMin) % q
             mid == (r1 * Limb) \div q
             r2 == (r1 * Limb) % q
             lo == (r2 * Limb) \div q
             r3 == (r2 * Limb) % q
             f == [zero |-> FALSE, hi |-> hi, mid |-> mid, lo |-> lo,
                   exp |-> -s - 52]
         IN  IF 2 * r3 > q \/ (2 * r3 = q /\ lo % 2 = 1) THEN FIncrement(f) ELSE f

\* number of bits by which h exceeds 13 bits
RECURSIVE ExcessBits(_)
ExcessBits(h) == IF h < HiLim THEN 0 ELSE 1 + ExcessBits(h \div 2)

\* n * f for an int 0 <= n < 2^10 (exact as a float): exact product, then
\* rounded to 53 bits (nearest, ties to even)
FloatMulInt(n, f) ==
    IF n = 0 \/ f.zero THEN FZero
    ELSE LET t0 == n * f.lo
             t1 == n * f.mid + (t0 \div Limb)
             hiP == n * f.hi + (t1 \div Limb)
             midP == t1 % Limb
             loP == t0 % Limb
             sh == ExcessBits(hiP)
             w == Pow2(sh)
             up == Pow2(20 - sh)
             dropped == loP % w
             g == [zero |-> FALSE,
                   hi |-> hiP \div w,
                   mid |-> (midP \div w) + (hiP % w) * up,
                   lo |-> (loP \div w) + (midP % w) * up,
                   exp |-> f.exp + sh]
         IN  IF sh > 0 /\ (2 * dropped > w \/ (2 * dropped = w /\ g.lo % 2 = 1))
             THEN FIncrement(g) ELSE g

\* int(f): truncation toward zero, for 0 <= f < 2^13
FloatToInt(f) ==
    IF f.zero \/ -f.exp - 40 > 13 THEN 0
    ELSE f.hi \div Pow2(-f.exp - 40)

\* app.py line 108
NumConverts(homes, rate) ==
    FloatToInt(FloatMulInt(homes, FloatDiv(rate, 100)))

--------------------------------------------------------------------------
(* app.py                                                                  *)

\* '2018-01-16' and '2018-01-19' (midnight) in quarter-hours since
\* 2018-01-01 00:00
WindowStart == 1440
WindowEnd == 1728

SliderMin == 0
SliderMax == 100
SliderDefault == 20
UnitScale == 1000
TableLimit == 50

MaxArchRows == 2
MaxKinds == 2

I100 == <<"1", "0", "0", "0", "0", "0", "-", "1", "1", "9", "9", "9", "9">>
I200 == <<"2", "0", "0", "0", "0", "0", "+">>
I60 == <<"6", "0", "0", "0", "0", "-", "6", "9", "9", "9", "9">>

NoCounty == "NaN"     \* a missing county cell
SortedCounties == <<"G4500190", "G4500450">>

\* a frame is its column set and the bag of its rows
EmptyFrame == [cols |-> {}, rows |-> EmptyBag]

\* DataFrame.empty
FrameEmpty(f) == f.cols = {} \/ BagCardinality(f.rows) = 0

FilterBag(B, keep) == [e \in DOMAIN B \cap keep |-> B[e]]

FilterFrame(f, keep) == [cols |-> f.cols, rows |-> FilterBag(f.rows, keep)]

AllMissingBag(B, field) ==
    BagCardinality(B) > 0 /\ \A r \in DOMAIN B : r[field] = NaNText

RowKinds == {[county |-> "G4500190", heat |-> NaturalGas, income |-> I100],
             [county |-> "G4500190", heat |-> Propane, income |-> I60],
             [county |-> "G4500450", heat |-> Electricity, income |-> I60],
             [county |-> "G4500450", heat |-> LowerGas, income |-> I200],
             [county |-> NoCounty, heat |-> NaNText, income |-> NaNText]}
HomeCounts == {1, 50}

Populations ==
    {[k \in S |-> c] : <<S, c>> \in
        {S \in SUBSET RowKinds : Cardinality(S) <= MaxKinds} \X HomeCounts}

FullColumns == {"bldg_id", "in.county", "in.heating_fuel", "in.income"}
ColumnVariants == {FullColumns,
                   {"bldg_id", "in.county", "in.hvac_heating_type", "in.income"},
                   {"bldg_id", "in.county", "in.heating_fuel"},
                   {"bldg_id", "in.county", "in.income"}}

DefaultPopulation ==
    [k \in {r \in RowKinds : r.county = "G4500190"} |-> 50]

\* sc_resstock_metadata.csv: missing, or its columns and rows
NoMetaFile == [exists |-> FALSE, cols |-> {}, rows |-> EmptyBag]

MetaFiles ==
    {[exists |-> TRUE, cols |-> FullColumns, rows |-> P] : P \in Populations}
    \cup {[exists |-> TRUE, cols |-> C, rows |-> DefaultPopulation] :
             C \in ColumnVariants}

DefaultMeta == [exists |-> TRUE, cols |-> FullColumns, rows |-> DefaultPopulation]

Readings == {<<1, Num(6)>>, <<2, Num(0)>>, <<2, NaN>>}

\* archetype_profile.csv: missing, or the rows analyze_single_home.py wrote
NoArchFile == [exists |-> FALSE, rows |-> << >>]

ArchFiles ==
    {[exists |-> TRUE,
      rows |-> [i \in 1..m |-> SimulateRow([timestamp |-> t0 + i - 1,
                                            electricity |-> Num(r[i][1]),
                                            gas_heating |-> r[i][2]])]] :
        <<m, t0, r>> \in UNION {{m} \X {WindowStart - 1, WindowEnd - 1} \X [1..m -> Readings] :
                                 m \in 1..MaxArchRows}}

DefaultArch ==
    [exists |-> TRUE,
     rows |-> [i \in 1..2 |-> SimulateRow([timestamp |-> WindowStart + i,
                                           electricity |-> Num(i),
                                           gas_heating |-> Num(12 - 6 * i)])]]

\* lines 38-42
InWindow(r) == r.timestamp >= WindowStart /\ r.timestamp <= WindowEnd

\* lines 24-47
load_data(meta, arch) ==
    IF ~meta.exists
    THEN [df_meta |-> EmptyFrame, df_ts |-> << >>, shown |-> {"error_metadata_csv"}]
    ELSE IF ~arch.exists
    THEN [df_meta |-> EmptyFrame, df_ts |-> << >>, shown |-> {"error_archetype_csv"}]
    ELSE [df_meta |-> [cols |-> meta.cols, rows |-> meta.rows],
          df_ts |-> FilterRows(arch.rows, {r \in Range(arch.rows) : InWindow(r)}), shown |-> {}]

\* line 58
CountyOptions(dm) == {r.county : r \in DOMAIN dm.rows} \ {NoCounty}

\* sorted(...)[0]
FirstSorted(S) ==
    SortedCounties[CHOOSE i \in 1..Len(SortedCounties) :
        /\ SortedCounties[i] \in S
        /\ \A j \in 1..(i - 1) : SortedCounties[j] \notin S]

\* st.selectbox: the first option until the user picks one, None without options
DefaultCounty(dm) ==
    IF FrameEmpty(dm) THEN Unset
    ELSE IF CountyOptions(dm) = {} THEN None
    ELSE FirstSorted(CountyOptions(dm))

\* Series.max(): NaN cells are skipped, all-NaN gives NaN
RECURSIVE MaxFrom(_, _, _)
MaxFrom(s, i, best) ==
    IF i > Len(s) THEN best
    ELSE MaxFrom(s, i + 1,
                 IF s[i].nan THEN best
                 ELSE IF best.nan \/ RLt(best, s[i]) THEN s[i]
                 ELSE best)

SeriesMax(s) == MaxFrom(s, 1, NaN)

Min(a, b) == IF a < b THEN a ELSE b

\* lines 96-103
IsGasHome(r) == ContainsNoCase(r.heat, Gas) \/ ContainsNoCase(r.heat, Propane)

\* line 181
IsHighIncome(r) == Contains(r.income, T100) \/ Contains(r.income, T200)

\* lines 115, 119, 122
BaselineCurve(da, n) ==
    [i \in 1..Len(da) |-> RDiv(RMul(da[i].electricity, Num(n)), Num(UnitScale))]
AddedCurve(da, c) ==
    [i \in 1..Len(da) |-> RDiv(RMul(da[i].hp_added_load, Num(c)), Num(UnitScale))]
\* variant subtracting the added load
SumCurvesMinus(x, y) == [i \in 1..Len(x) |-> RSub(x[i], y[i])]

SumCurves(x, y) == [i \in 1..Len(x) |-> RAdd(x[i], y[i])]

\* variant without the inner fallback of line 187
HighRiskNoFallback(gas) ==
    IF "in.income" \in gas.cols
    THEN LET filtered == FilterFrame(gas, {r \in DOMAIN gas.rows : IsHighIncome(r)})
         IN  IF ~FrameEmpty(filtered)
             THEN [frame |-> filtered, shown |-> "success_high_income"]
             ELSE [frame |-> filtered, shown |-> "info_no_high_income"]
    ELSE [frame |-> gas, shown |-> "warning_no_income"]

\* lines 171-191: the frame shown and the status element emitted
HighRisk(gas) ==
    IF "in.income" \in gas.cols
    THEN LET filtered == FilterFrame(gas, {r \in DOMAIN gas.rows : IsHighIncome(r)})
         IN  IF ~FrameEmpty(filtered)
             THEN [frame |-> filtered, shown |-> "success_high_income"]
             ELSE [frame |-> gas, shown |-> "info_no_high_income"]
    ELSE [frame |-> gas, shown |-> "warning_no_income"]

\* values of the script's globals that a run has not assigned
Blank ==
    [county_homes |-> Unset, heat_col |-> Unset, gas_homes |-> Unset,
     total_gas_homes |-> Unset, num_converts |-> Unset,
     baseline_curve |-> Unset, added_curve |-> Unset,
     new_total_curve |-> Unset, old_peak |-> Unset, new_peak |-> Unset,
     peak_growth |-> Unset, pct_increase |-> Unset, high_risk |-> Unset,
     table_rows |-> Unset, messages |-> {}, page |-> "none", error |-> None]

\* lines 62 and 65
CountyHomes(dm, sel) ==
    IF FrameEmpty(dm) THEN EmptyFrame
    ELSE IF sel = None THEN FilterFrame(dm, {})
    ELSE FilterFrame(dm, {r \in DOMAIN dm.rows : r.county = sel})

\* lines 93-203, entered with non-empty county_homes and df_archetype
Dashboard(dm, ch, da, rate, shown) ==
    LET hc == IF "in.heating_fuel" \in ch.cols THEN "in.heating_fuel"
              ELSE "in.hvac_heating_type"
        gas == IF hc \in ch.cols THEN FilterFrame(ch, {r \in DOMAIN ch.rows : IsGasHome(r)}) ELSE EmptyFrame
        shown1 == shown \cup (IF hc \in ch.cols THEN {} ELSE {"error_no_heating_column"})
        n == BagCardinality(gas.rows)
        conv == NumConverts(n, rate)
        base == BaselineCurve(da, n)
        added == AddedCurve(da, conv)
        total == SumCurves(base, added)
        oldp == SeriesMax(base)
        newp == SeriesMax(total)
        growth == RSub(newp, oldp)
        pct == IF RGt(oldp, Num(0)) THEN RMul(RDiv(growth, oldp), Num(100)) ELSE Num(0)
        hr == HighRisk(gas)
        calc == [Blank EXCEPT !.county_homes = ch, !.heat_col = hc,
                     !.gas_homes = gas, !.total_gas_homes = n,
                     !.num_converts = conv, !.baseline_curve = base,
                     !.added_curve = added, !.new_total_curve = total,
                     !.old_peak = oldp, !.new_peak = newp,
                     !.peak_growth = growth, !.pct_increase = pct,
                     !.messages = shown1]
    IN  IF hc \in ch.cols /\ AllMissingBag(dm.rows, "heat")
        THEN [Blank EXCEPT !.county_homes = ch, !.heat_col = hc,
                  !.messages = shown, !.page = "exception",
                  !.error = "AttributeError"]
        ELSE IF "in.income" \in gas.cols /\ AllMissingBag(dm.rows, "income")
        THEN [calc EXCEPT !.page = "exception", !.error = "AttributeError"]
        ELSE [calc EXCEPT !.high_risk = hr.frame,
                  !.table_rows = Min(TableLimit, BagCardinality(hr.frame.rows)),
                  !.messages = shown1 \cup {hr.shown}, !.page = "dashboard"]

\* lines 49-206: one execution of the script after load_data has returned
Run(dm, da, sel, rate, shown) ==
    LET ch == CountyHomes(dm, sel)
    IN  IF FrameEmpty(dm)
        THEN \* line 89 reads selected_county, bound only in the other branch
             [Blank EXCEPT !.county_homes = ch,
                  !.messages = shown \cup {"warning_no_data"},
                  !.page = "exception", !.error = "NameError"]
        ELSE IF FrameEmpty(ch) \/ da = << >>
        THEN [Blank EXCEPT !.county_homes = ch,
                  !.messages = shown \cup {"waiting_for_data"},
                  !.page = "waiting"]
        ELSE Dashboard(dm, ch, da, rate, shown)

\* variant converting the added-load column in place
FramesAfterRunInPlace(c) ==
    [c EXCEPT !.df_ts = [i \in 1..Len(c.df_ts) |->
        [c.df_ts[i] EXCEPT !.hp_added_load = RDiv(@, Num(UnitScale))]]]

\* lines 115-122 build new Series; the loaded frames are read only
FramesAfterRun(c) == c

Execute(c, sel, rate) ==
    \E res \in {Run(c.df_meta, c.df_ts, sel, rate, c.shown)},
       after \in {FramesAfterRun(c)} :
        /\ df_meta' = after.df_meta
        /\ df_archetype' = after.df_ts
        /\ selected_county' = sel
        /\ adoption_rate' = rate
        /\ county_homes' = res.county_homes
        /\ heat_col' = res.heat_col
        /\ gas_homes' = res.gas_homes
        /\ total_gas_homes' = res.total_gas_homes
        /\ num_converts' = res.num_converts
        /\ baseline_curve' = res.baseline_curve
        /\ added_curve' = res.added_curve
        /\ new_total_curve' = res.new_total_curve
        /\ old_peak' = res.old_peak
        /\ new_peak' = res.new_peak
        /\ peak_growth' = res.peak_growth
        /\ pct_increase' = res.pct_increase
        /\ high_risk' = res.high_risk
        /\ table_rows' = res.table_rows
        /\ messages' = res.messages
        /\ page' = res.page
        /\ error' = res.error

analyzeRest == <<meta_cols, meta_rows, sqft_col, targets, fs_a, fs_b, ts_path,
                 file_list, df_ts, artifact>>

AppIdle ==
    /\ meta_csv = NoMetaFile /\ arch_csv = NoArchFile /\ cache = None
    /\ df_meta = Unset /\ df_archetype = Unset
    /\ selected_county = Unset /\ adoption_rate = Unset
    /\ county_homes = Unset /\ gas_homes = Unset /\ total_gas_homes = Unset
    /\ num_converts = Unset /\ baseline_curve = Unset /\ added_curve = Unset
    /\ new_total_curve = Unset /\ old_peak = Unset /\ new_peak = Unset
    /\ peak_growth = Unset /\ pct_increase = Unset /\ high_risk = Unset
    /\ table_rows = Unset /\ messages = {} /\ page = "none"

AppInit ==
    /\ pc = "app_start"
    /\ error = None
    /\ \/ meta_csv \in MetaFiles /\ arch_csv = DefaultArch
       \/ meta_csv = NoMetaFile /\ arch_csv = DefaultArch
       \/ meta_csv = DefaultMeta /\ arch_csv \in ArchFiles
       \/ meta_csv = DefaultMeta /\ arch_csv = NoArchFile
    /\ cache = None
    /\ df_meta = Unset /\ df_archetype = Unset
    /\ selected_county = Unset /\ adoption_rate = Unset
    /\ county_homes = Unset /\ gas_homes = Unset /\ total_gas_homes = Unset
    /\ num_converts = Unset /\ baseline_curve = Unset /\ added_curve = Unset
    /\ new_total_curve = Unset /\ old_peak = Unset /\ new_peak = Unset
    /\ peak_growth = Unset /\ pct_increase = Unset /\ high_risk = Unset
    /\ table_rows = Unset /\ messages = {} /\ page = "none"

\* first execution: load_data runs and its return value is cached
FirstRun ==
    /\ pc = "app_start"
    /\ cache' = load_data(meta_csv, arch_csv)
    /\ Execute(cache', DefaultCounty(cache'.df_meta), SliderDefault)
    /\ pc' = "app_idle"
    /\ UNCHANGED <<pullVars, analyzeRest, meta_csv, arch_csv>>

\* a widget change discards the previous run's globals and schedules a rerun
Discard ==
    /\ county_homes' = Unset /\ heat_col' = Unset /\ gas_homes' = Unset
    /\ total_gas_homes' = Unset /\ num_converts' = Unset
    /\ baseline_curve' = Unset /\ added_curve' = Unset
    /\ new_total_curve' = Unset /\ old_peak' = Unset /\ new_peak' = Unset
    /\ peak_growth' = Unset /\ pct_increase' = Unset /\ high_risk' = Unset
    /\ table_rows' = Unset /\ messages' = {} /\ page' = "running"
    /\ error' = None
    /\ pc' = "app_rerun"

\* the user picks another county in the selectbox (line 59)
SelectCounty ==
    /\ pc = "app_idle"
    /\ \E c \in CountyOptions(df_meta) \ {selected_county} : selected_county' = c
    /\ Discard
    /\ UNCHANGED <<pullVars, analyzeRest, loadVars, adoption_rate>>

\* the user moves the slider (lines 68-74)
SlideAdoption ==
    /\ pc = "app_idle"
    /\ \E r \in (SliderMin..SliderMax) \ {adoption_rate} : adoption_rate' = r
    /\ Discard
    /\ UNCHANGED <<pullVars, analyzeRest, loadVars, selected_county>>

\* the script runs again from the top; load_data hits the cache
Rerun ==
    /\ pc = "app_rerun"
    /\ Execute(cache, selected_county, adoption_rate)
    /\ pc' = "app_idle"
    /\ UNCHANGED <<pullVars, analyzeRest, meta_csv, arch_csv, cache>>

AppNext == FirstRun \/ SelectCounty \/ SlideAdoption \/ Rerun

Init == PullInit /\ AnalyzeIdle /\ AppIdle

Next ==
    \/ PullRead
    \/ PullSelectSave
    \/ LoadMetadata
    \/ PickTarget
    \/ ResolvePath
    \/ FindFile
    \/ Download
    \/ Simulate
    \/ PlotSave

Spec == Init /\ [][Next]_vars

PullIdle ==
    /\ columns = {} /\ index_name = None /\ final_cols = << >>
    /\ output_file = Absent

InitApp == AppInit /\ PullIdle /\ AnalyzeIdle

SpecApp == InitApp /\ [][AppNext]_vars

--------------------------------------------------------------------------
(* Properties                                                              *)

\* states in which get_correct_timeseries_path has returned or raised
Resolved ==
    \/ pc \in {"find_file", "download", "simulate", "plot_save", "analyze_done"}
    \/ pc \in {"analyze_exit1", "crash"} /\ targets # << >>

\* C1: path resolution returns state/upgrade when it exists, upgrade/state
\* only when state/upgrade does not exist and upgrade/state does, and no
\* path exactly when neither exists; the run continues only with a path.
C1_PathPriority ==
    Resolved =>
        /\ ts_path = path_a <=> fs_a
        /\ ts_path = path_b <=> (~fs_a /\ fs_b)
        /\ ts_path = None <=> (~fs_a /\ ~fs_b)
        /\ pc \in {"find_file", "download", "simulate", "plot_save",
                   "analyze_done"} => ts_path # None

C1_Witness == pc = "find_file" /\ ts_path = path_b /\ ~fs_a /\ fs_b

\* C2: column resolution never returns a column name that is absent from
\* the table: the resolved heating and floor-area names are columns of the
\* metadata frame.
C2_ResolvedColumnPresent ==
    /\ heat_col \notin {None, Unset} => heat_col \in meta_cols
    /\ sqft_col \notin {None, Unset} => sqft_col \in meta_cols

InvalidInput(s) ==
    \/ COP <= 0
    \/ \E i \in 1..Len(s) :
          \/ s[i].gas_heating.nan
          \/ RLt(s[i].gas_heating, Num(0))
          \/ RLt(s[i].electricity, Num(0))

\* C3: when cop <= 0, a channel holds a negative value or a gas-heating
\* reading is missing, the simulation step produces no simulated series and
\* no output artifact.
C3_InvalidInputRejected ==
    InvalidInput(df_ts) =>
        /\ pc \notin {"plot_save", "analyze_done"}
        /\ artifact = Absent

\* a = g / c, with a missing reading staying missing
IsQuotient(a, g, c) ==
    IF g.nan THEN a.nan ELSE ~a.nan /\ a.n * g.d * c = g.n * a.d

\* t = e + a, with a missing term making the sum missing
IsSum(t, e, a) ==
    IF e.nan \/ a.nan THEN t.nan
    ELSE ~t.nan /\ t.n * e.d * a.d = (e.n * a.d + a.n * e.d) * t.d

\* C4: the simulation step gives every row hp_added_load = gas_heating / COP
\* and total_load_after = electricity + hp_added_load with COP = 3, and
\* leaves the timestamp, electricity and gas-heating cells as they were.
C4_Simulation ==
    [][pc = "simulate" =>
         /\ COP = 3
         /\ Len(df_ts') = Len(df_ts)
         /\ \A i \in 1..Len(df_ts) :
               /\ df_ts'[i].timestamp = df_ts[i].timestamp
               /\ df_ts'[i].electricity = df_ts[i].electricity
               /\ df_ts'[i].gas_heating = df_ts[i].gas_heating
               /\ IsQuotient(df_ts'[i].hp_added_load, df_ts[i].gas_heating, COP)
               /\ IsSum(df_ts'[i].total_load_after, df_ts[i].electricity,
                        df_ts'[i].hp_added_load)]_vars

C4_Witness ==
    /\ pc = "plot_save"
    /\ \E i \in 1..Len(df_ts) :
          /\ df_ts[i].gas_heating = Num(1)
          /\ df_ts[i].electricity = Num(2)
          /\ df_ts[i].hp_added_load = Rat(1, 3)
          /\ df_ts[i].total_load_after = Rat(7, 3)

\* C5: the number of converts is floor(subset_count * percentage / 100)
\* computed exactly.
C5_ExactFloor ==
    page = "dashboard" =>
        num_converts = (total_gas_homes * adoption_rate) \div 100

C7_EmptyStateSurfaced ==
    pc = "app_idle" =>
        /\ (FrameEmpty(df_meta) \/ FrameEmpty(county_homes)) =>
               page = "waiting" /\ messages # {}
        /\ (page = "dashboard" /\ total_gas_homes = 0) => messages # {}

AddedNonNegative ==
    \A i \in 1..Len(df_archetype) : RLe(Num(0), df_archetype[i].hp_added_load)

\* peak of the projected curve at adoption rate a, other inputs as they are
PeakAfterAt(a) ==
    SeriesMax(SumCurves(baseline_curve,
                        AddedCurve(df_archetype, NumConverts(total_gas_homes, a))))

\* C8: with every added-load cell >= 0, the projected peak at the current
\* adoption rate is at least the projected peak at every lower rate, and at
\* least the baseline peak, so the peak growth is >= 0.
C8_PeakMonotone ==
    (page = "dashboard" /\ AddedNonNegative) =>
        /\ RLe(old_peak, new_peak)
        /\ RLe(Num(0), peak_growth)
        /\ \A a \in SliderMin..adoption_rate : RLe(PeakAfterAt(a), new_peak)

C8_Witness ==
    /\ page = "dashboard"
    /\ AddedNonNegative
    /\ adoption_rate > SliderDefault
    /\ RLt(old_peak, new_peak)
    /\ RLt(PeakAfterAt(SliderDefault), new_peak)

\* x = v * k / UnitScale, with a missing v making x missing
IsScaled(x, v, k) ==
    IF v.nan THEN x.nan
    ELSE ~x.nan /\ x.n * v.d * UnitScale = v.n * k * x.d

\* C9: for every timestamp baseline = electricity * subset_count / scale and
\* projected = baseline + added_load * convert_count / scale; at adoption 0
\* projected equals baseline, and at adoption 100 projected equals
\* baseline + added_load * subset_count / scale.
C9_Projection ==
    page = "dashboard" =>
        \A i \in 1..Len(df_archetype) :
            LET term == RSub(new_total_curve[i], baseline_curve[i])
                added == df_archetype[i].hp_added_load
            IN  /\ IsScaled(baseline_curve[i], df_archetype[i].electricity,
                            total_gas_homes)
                /\ IsScaled(term, added, num_converts)
                /\ adoption_rate = SliderMin =>
                       new_total_curve[i] = baseline_curve[i]
                /\ adoption_rate = SliderMax =>
                       IsScaled(term, added, total_gas_homes)

==========================================================================
